---- MODULE Spec2Model ----
(***************************************************************************)
(* Model of the user registry of src/main.py: the handlers create_user,   *)
(* delete_user, get_users, upload_users and get_average_age_by_group       *)
(* running as concurrent requests                                          *)
(* against one PostgreSQL table "users" (id, name UNIQUE, age).            *)
(*                                                                         *)
(* Each request owns one SQLAlchemy session (autocommit=False), that is    *)
(* one READ COMMITTED transaction: a SELECT sees the committed rows plus   *)
(* the session's own uncommitted rows; an INSERT of a name that another    *)
(* open transaction has inserted waits for that transaction to end; an     *)
(* INSERT of a name that is committed raises a unique violation.           *)
(***************************************************************************)
EXTENDS Integers, Sequences, FiniteSets, TLC

VARIABLES
    users,      \* committed rows of table "users": records [id, name, age]
    nextId,     \* next value of the sequence behind users.id
    pc,         \* per request slot: where its handler stands
    req,        \* per request slot: the request being (or last) served
    csv_data,   \* upload_users: the DataFrame read from the file
    idx,        \* upload_users: position of the iterrows() loop
    pending,    \* per session: rows inserted but not yet committed
    newId,      \* create_user: primary key of new_user after the commit
    session,    \* per request slot: "open" between SessionLocal() and db.close()
    resp,       \* per request slot: the HTTP response of the last request
    pre_empty,  \* history, upload_users: was the table empty when the batch began
    dirty       \* history: has the table changed since the slot's last read request

vars == <<users, nextId, pc, req, csv_data, idx, pending, newId, session, resp, pre_empty,
          dirty>>

---------------------------------------------------------------------------
(* Bounds and inputs *)

\* The sequence behind users.id hands out the ids 1..MaxId: at most MaxId
\* INSERT statements are executed in one behaviour.
MaxId == 3

\* Two requests are served at a time.
Procs == {"p1", "p2"}

\* Names and ages sent to create_user and delete_user: the empty name and a
\* valid one, a negative age, an age within the limit and one above it. The handlers only
\* test a name for emptiness and equality; the names "Bob" and "nan" reach
\* the table through uploaded files.
Names == {"", "Alice"}

Ages == {-5, 30, 999}

\* A CSV cell of column Age: <<>> is an empty cell, <<n>> holds the number n.
CsvRow(name, age) == [name |-> name, age |-> age]

\* The files sent to upload_users: the four rows of the documented example,
\* a file naming Bob before Alice, a file with an empty Age cell, and a file
\* that holds the header line only.
ExampleFile ==
    << CsvRow("Alice", <<30>>), CsvRow("Alice", <<40>>),
       CsvRow("", <<10>>), CsvRow("Bob", <<999>>) >>

Files ==
    { ExampleFile,
      << CsvRow("Bob", <<40>>), CsvRow("Alice", <<30>>) >>,
      << CsvRow("Alice", <<30>>), CsvRow("Bob", <<>>) >>,
      << >> }

---------------------------------------------------------------------------
(* Program constants and responses *)

AgeLimit == 120

NoResp == [status |-> 0, detail |-> ""]

NameEmpty == [status |-> 422, detail |-> "User name cannot be empty"]

AgeOutOfRange == [status |-> 400, detail |-> "User age cannot exceed 120 years"]

Conflict == [status |-> 400, detail |-> "User already exists"]

Created == [status |-> 200, detail |-> "created successfully"]

NotFound == [status |-> 404, detail |-> "User not found"]

Deleted == [status |-> 200, detail |-> "deleted"]

Uploaded == [status |-> 200, detail |-> "Users from CSV uploaded successfully"]

InternalError == [status |-> 500, detail |-> "Internal server error"]

Listed(body) == [status |-> 200, detail |-> "users", body |-> body]

NoUsers == [status |-> 404, detail |-> "No users found"]

Averages(body) == [status |-> 200, detail |-> "average", body |-> body]

---------------------------------------------------------------------------
(* The table and the statements issued against it *)

User(id, name, age) == [id |-> id, name |-> name, age |-> age]

\* SELECT * FROM users WHERE name = :name, over the rows a session sees.
SelectByName(table, name) == {u \in table : u.name = name}

\* SELECT * FROM users
SelectAll(table) == table

\* Mutant: a request sees the committed rows only.
VisibleCommitted(p) == users

\* The rows session p sees: committed rows and its own uncommitted ones.
Visible(p) == users \cup pending[p]

\* INSERT waits while another open transaction holds an uncommitted row of
\* the same name (the unique index makes it wait for that transaction).
Blocked(p, name) ==
    \E q \in Procs \ {p} : SelectByName(pending[q], name) # {}

\* Mutant: the column is declared without unique=True.
NoUniqueIndex(p, name) == FALSE

\* name = Column(String, unique=True): the INSERT is rejected when a row of
\* that name is committed or was inserted earlier by the same transaction.
UniqueViolation(p, name) == SelectByName(Visible(p), name) # {}

\* Mutant: the age check is made before the name check.
ValidateAgeFirst(name, age) ==
    IF age > AgeLimit THEN AgeOutOfRange
    ELSE IF name = "" THEN NameEmpty
    ELSE NoResp

\* Mutant: the age check is missing.
ValidateNoAge(name, age) == IF name = "" THEN NameEmpty ELSE NoResp

\* Mutant: a negative age is rejected as well.
ValidateLowerBound(name, age) ==
    IF name = "" THEN NameEmpty
    ELSE IF age > AgeLimit \/ age < 0 THEN AgeOutOfRange
    ELSE NoResp

\* The checks at the head of create_user, in the order of the code.
Validate(name, age) ==
    IF name = "" THEN NameEmpty
    ELSE IF age > AgeLimit THEN AgeOutOfRange
    ELSE NoResp

\* pd.read_csv: an empty cell is read as NaN; formatted into the SQL text a
\* NaN name becomes the string 'nan', a NaN age the bare word nan.
NaValues == {""}

ReadCsvName(cell) == IF cell \in NaValues THEN "nan" ELSE cell

ReadCsv(file) ==
    [i \in 1..Len(file) |-> CsvRow(ReadCsvName(file[i].name), file[i].age)]

\* str[0]: the first character of a name. Strings are atoms here, so the
\* characters of the names that occur are tabulated.
FirstChar(name) ==
    CASE name = "Alice" -> "A"
      [] name = "Amy" -> "A"
      [] name = "alice" -> "a"
      [] name = "Bob" -> "B"
      [] name = "nan" -> "n"

\* str.upper() on one character.
Upper(c) ==
    CASE c = "a" -> "A"
      [] c = "b" -> "B"
      [] c = "n" -> "N"
      [] OTHER -> c

\* Mutant: the group is the first character as stored, not upper-cased.
GroupKeyAsStored(name) == FirstChar(name)

\* df['group'] = df['name'].str[0].str.upper()
GroupKey(name) == Upper(FirstChar(name))

RECURSIVE SumAges(_)
SumAges(rows) ==
    IF rows = {} THEN 0
    ELSE LET u == CHOOSE u \in rows : TRUE
         IN  u.age + SumAges(rows \ {u})

Abs(n) == IF n < 0 THEN -n ELSE n

RECURSIVE Gcd(_, _)
Gcd(a, b) == IF b = 0 THEN a ELSE Gcd(b, a % b)

\* mean(): the sum of the ages over their number, kept as the fraction in
\* lowest terms [num / den] (the code holds it as a float).
Mean(rows) ==
    LET sum == SumAges(rows)
        n == Cardinality(rows)
        g == Gcd(n, Abs(sum) % n)
    IN  [num |-> sum \div g, den |-> n \div g]

\* df.groupby('group')['age'].mean().to_dict()
AverageAgeByGroup(table) ==
    [g \in {GroupKey(u.name) : u \in table} |->
        Mean({u \in table : GroupKey(u.name) = g})]

---------------------------------------------------------------------------
Init ==
    /\ users = {}
    /\ nextId = 1
    /\ pc = [p \in Procs |-> "idle"]
    /\ req = [p \in Procs |-> [op |-> "none"]]
    /\ csv_data = [p \in Procs |-> << >>]
    /\ idx = [p \in Procs |-> 0]
    /\ pending = [p \in Procs |-> {}]
    /\ newId = [p \in Procs |-> 0]
    /\ session = [p \in Procs |-> "closed"]
    /\ resp = [p \in Procs |-> NoResp]
    /\ pre_empty = [p \in Procs |-> FALSE]
    /\ dirty = [p \in Procs |-> TRUE]

\* The handler of slot p moves to `label` with these values of its locals.
Local(p, label, r, s, pend, csv, i, id, pe) ==
    /\ pc' = [pc EXCEPT ![p] = label]
    /\ resp' = [resp EXCEPT ![p] = r]
    /\ session' = [session EXCEPT ![p] = s]
    /\ pending' = [pending EXCEPT ![p] = pend]
    /\ csv_data' = [csv_data EXCEPT ![p] = csv]
    /\ idx' = [idx EXCEPT ![p] = i]
    /\ newId' = [newId EXCEPT ![p] = id]
    /\ pre_empty' = [pre_empty EXCEPT ![p] = pe]

\* Mutant: the finally block is missing, the session stays as it was.
FinishLeak(p, r) == Local(p, "idle", r, session[p], {}, << >>, 0, 0, FALSE)

\* A handler returns or raises: the response goes out and the finally block
\* closes the session, which rolls back whatever was not committed.
Finish(p, r) == Local(p, "idle", r, "closed", {}, << >>, 0, 0, FALSE)

\* A handler goes on to its next statement with its session open.
Goto(p, label) ==
    Local(p, label, NoResp, "open", pending[p], csv_data[p], idx[p], newId[p],
          pre_empty[p])

\* The server hands a request to a free slot.
Accept(p, r) ==
    /\ pc[p] = "idle"
    /\ req' = [req EXCEPT ![p] = r]

\* A later statement of the request slot p is serving.
At(p, label) ==
    /\ pc[p] = label
    /\ UNCHANGED req

\* History: slot p is clean once it has answered a read request, and every
\* other slot is dirty once a step has changed the committed rows.
Track(p) ==
    dirty' = [q \in Procs |->
                 IF q = p
                   THEN ~(pc'[p] = "idle" /\ req'[p].op \in {"list", "average"})
                   ELSE dirty[q] \/ users' # users]

---------------------------------------------------------------------------
(* create_user *)

\* Mutant: the handler does not look the name up before inserting.
CreateUserNoLookup(p, name, age) ==
    /\ Accept(p, [op |-> "create", name |-> name, age |-> age])
    /\ IF Validate(name, age) # NoResp
         THEN Finish(p, Validate(name, age))
         ELSE Goto(p, "c_commit")
    /\ UNCHANGED <<users, nextId>>
    /\ Track(p)

\* Lines 59-74: open the session, validate, look the name up.
CreateUser(p, name, age) ==
    /\ Accept(p, [op |-> "create", name |-> name, age |-> age])
    /\ IF Validate(name, age) # NoResp
         THEN Finish(p, Validate(name, age))
         ELSE IF SelectByName(Visible(p), name) # {}
                THEN Finish(p, Conflict)
                ELSE Goto(p, "c_commit")
    /\ UNCHANGED <<users, nextId>>
    /\ Track(p)

\* Mutant: db.commit() is missing, the new row is rolled back on close.
CreateCommitNoCommit(p) ==
    /\ At(p, "c_commit")
    /\ Local(p, "c_refresh", NoResp, "open", pending[p], << >>, 0, nextId, FALSE)
    /\ UNCHANGED <<users, nextId>>
    /\ Track(p)

\* Lines 77-79: db.add(new_user); db.commit() flushes the INSERT and commits.
CreateCommit(p) ==
    /\ At(p, "c_commit")
    /\ ~Blocked(p, req[p].name)
    /\ nextId <= MaxId
    /\ nextId' = nextId + 1
    /\ IF UniqueViolation(p, req[p].name)
         THEN /\ Finish(p, InternalError)
              /\ UNCHANGED users
         ELSE /\ users' = users \cup {User(nextId, req[p].name, req[p].age)}
              /\ Local(p, "c_refresh", NoResp, "open", pending[p], << >>, 0, nextId, FALSE)
    /\ Track(p)

\* Lines 80-83: db.refresh(new_user) reloads the row by primary key and
\* raises when it is gone; otherwise the handler returns.
CreateRefresh(p) ==
    /\ At(p, "c_refresh")
    /\ IF \E u \in users : u.id = newId[p]
         THEN Finish(p, Created)
         ELSE Finish(p, InternalError)
    /\ UNCHANGED <<users, nextId>>
    /\ Track(p)

---------------------------------------------------------------------------
(* delete_user *)

\* Mutant: the handler deletes without looking the name up.
DeleteUserNoLookup(p, name) ==
    /\ Accept(p, [op |-> "delete", name |-> name])
    /\ Goto(p, "d_commit")
    /\ UNCHANGED <<users, nextId>>
    /\ Track(p)

\* Lines 111-117
DeleteUser(p, name) ==
    /\ Accept(p, [op |-> "delete", name |-> name])
    /\ IF SelectByName(Visible(p), name) = {}
         THEN Finish(p, NotFound)
         ELSE Goto(p, "d_commit")
    /\ UNCHANGED <<users, nextId>>
    /\ Track(p)

\* Mutant: db.commit() is missing, the DELETE is rolled back on close.
DeleteCommitNoCommit(p) ==
    /\ At(p, "d_commit")
    /\ Finish(p, Deleted)
    /\ UNCHANGED <<users, nextId>>
    /\ Track(p)

\* Lines 119-124: DELETE FROM users WHERE name = :name; commit.
DeleteCommit(p) ==
    /\ At(p, "d_commit")
    /\ users' = users \ SelectByName(users, req[p].name)
    /\ Finish(p, Deleted)
    /\ UNCHANGED nextId
    /\ Track(p)

---------------------------------------------------------------------------
(* get_users *)

\* Lines 146-154
GetUsers(p) ==
    /\ Accept(p, [op |-> "list"])
    /\ Finish(p, Listed(SelectAll(Visible(p))))
    /\ UNCHANGED <<users, nextId>>
    /\ Track(p)

---------------------------------------------------------------------------
(* get_average_age_by_group *)

\* Mutant: the handler does not test for an empty result.
GetAverageAgeNoCheck(p) ==
    /\ Accept(p, [op |-> "average"])
    /\ Finish(p, Averages(AverageAgeByGroup(SelectAll(Visible(p)))))
    /\ UNCHANGED <<users, nextId>>
    /\ Track(p)

\* Mutant: the handler drops the rows it has read.
GetAverageAgeDrop(p) ==
    /\ Accept(p, [op |-> "average"])
    /\ IF SelectAll(Visible(p)) = {}
         THEN Finish(p, NoUsers)
         ELSE Finish(p, Averages(AverageAgeByGroup(SelectAll(Visible(p)))))
    /\ users' = {}
    /\ UNCHANGED nextId
    /\ Track(p)

\* Lines 212-227
GetAverageAge(p) ==
    /\ Accept(p, [op |-> "average"])
    /\ IF SelectAll(Visible(p)) = {}
         THEN Finish(p, NoUsers)
         ELSE Finish(p, Averages(AverageAgeByGroup(SelectAll(Visible(p)))))
    /\ UNCHANGED <<users, nextId>>
    /\ Track(p)

---------------------------------------------------------------------------
(* upload_users *)

CurrentRow(p) == csv_data[p][idx[p]]

\* The for loop moves to the next row, or leaves the loop for db.commit().
NextRow(p, pend) ==
    Local(p, IF idx[p] + 1 > Len(csv_data[p]) THEN "u_commit" ELSE "u_select",
          NoResp, "open", pend, csv_data[p], idx[p] + 1, 0, pre_empty[p])

\* Lines 174-178
UploadUsers(p, file) ==
    /\ Accept(p, [op |-> "upload", file |-> file])
    /\ Local(p, IF Len(ReadCsv(file)) = 0 THEN "u_commit" ELSE "u_select",
             NoResp, "open", {}, ReadCsv(file), 1, 0, users = {})
    /\ UNCHANGED <<users, nextId>>
    /\ Track(p)

\* Lines 179-185: SELECT 1 FROM users WHERE name = '{name}'
UploadSelect(p) ==
    /\ At(p, "u_select")
    /\ IF SelectByName(Visible(p), CurrentRow(p).name) # {}
         THEN NextRow(p, pending[p])
         ELSE Goto(p, "u_insert")
    /\ UNCHANGED <<users, nextId>>
    /\ Track(p)

\* Lines 186-187: INSERT INTO users (name, age) VALUES ('{name}', {age}).
\* A NaN age makes the statement invalid SQL; a committed row of the same
\* name makes it a unique violation; both raise, and the handler answers 500.
UploadInsert(p) ==
    /\ At(p, "u_insert")
    /\ IF CurrentRow(p).age = << >>
         THEN /\ Finish(p, InternalError)
              /\ UNCHANGED nextId
         ELSE /\ ~Blocked(p, CurrentRow(p).name)
              /\ nextId <= MaxId
              /\ nextId' = nextId + 1
              /\ IF UniqueViolation(p, CurrentRow(p).name)
                   THEN Finish(p, InternalError)
                   ELSE NextRow(p, pending[p] \cup
                          {User(nextId, CurrentRow(p).name, CurrentRow(p).age[1])})
    /\ UNCHANGED users
    /\ Track(p)

\* Two uploads each wait for a row the other holds: the database detects
\* the deadlock and fails the INSERT of one of them.
UploadDeadlock(p) ==
    /\ At(p, "u_insert")
    /\ CurrentRow(p).age # << >>
    /\ \E q \in Procs \ {p} :
          /\ pc[q] = "u_insert"
          /\ CurrentRow(q).age # << >>
          /\ SelectByName(pending[q], CurrentRow(p).name) # {}
          /\ SelectByName(pending[p], CurrentRow(q).name) # {}
    /\ Finish(p, InternalError)
    /\ UNCHANGED <<users, nextId>>
    /\ Track(p)

\* Lines 189-192
UploadCommit(p) ==
    /\ At(p, "u_commit")
    /\ users' = users \cup pending[p]
    /\ Finish(p, Uploaded)
    /\ UNCHANGED nextId
    /\ Track(p)

---------------------------------------------------------------------------
Next ==
    \E p \in Procs :
        \/ \E name \in Names, age \in Ages : CreateUser(p, name, age)
        \/ CreateCommit(p)
        \/ CreateRefresh(p)
        \/ \E name \in Names : DeleteUser(p, name)
        \/ DeleteCommit(p)
        \/ GetUsers(p)
        \/ GetAverageAge(p)
        \/ \E file \in Files : UploadUsers(p, file)
        \/ UploadSelect(p)
        \/ UploadInsert(p)
        \/ UploadDeadlock(p)
        \/ UploadCommit(p)

Spec == Init /\ [][Next]_vars

---------------------------------------------------------------------------
(* The read requests over tables of differently cased names *)

\* Rows that earlier create_user requests have stored, in this order.
AvgRows ==
    << User(1, "Alice", 30), User(2, "Amy", 10), User(3, "Bob", 20),
       User(4, "alice", 40) >>

AvgNames == {AvgRows[i].name : i \in 1..Len(AvgRows)}

\* Any of those rows may have been deleted again.
InitAvg ==
    /\ users \in SUBSET {AvgRows[i] : i \in 1..Len(AvgRows)}
    /\ nextId = Len(AvgRows) + 1
    /\ pc = [p \in Procs |-> "idle"]
    /\ req = [p \in Procs |-> [op |-> "none"]]
    /\ csv_data = [p \in Procs |-> << >>]
    /\ idx = [p \in Procs |-> 0]
    /\ pending = [p \in Procs |-> {}]
    /\ newId = [p \in Procs |-> 0]
    /\ session = [p \in Procs |-> "closed"]
    /\ resp = [p \in Procs |-> NoResp]
    /\ pre_empty = [p \in Procs |-> FALSE]
    /\ dirty = [p \in Procs |-> TRUE]

NextAvg ==
    \E p \in Procs :
        \/ GetAverageAge(p)
        \/ GetUsers(p)
        \/ \E name \in AvgNames : DeleteUser(p, name)
        \/ DeleteCommit(p)

SpecAvg == InitAvg /\ [][NextAvg]_vars

---------------------------------------------------------------------------
(* Properties *)

Has(table, name) == \E u \in table : u.name = name

Pairs(table) == {<<u.name, u.age>> : u \in table}

ExactlyOne(table, name, age) ==
    /\ Cardinality({u \in table : u.name = name}) = 1
    /\ \A u \in table : u.name = name => u.age = age

AllRows == users \cup UNION {pending[p] : p \in Procs}

IsCreate(p) == req[p].op = "create"

IsDelete(p) == req[p].op = "delete"

IsUpload(p) == req[p].op = "upload"

InUpload(p) == pc[p] \in {"u_select", "u_insert", "u_commit"}

\* C1: under every interleaving of create, delete and upload requests no two
\* rows of the table, committed or inserted by a still open transaction,
\* carry the same name.
C1_UniqueNames == \A u, v \in AllRows : u.name = v.name => u = v

\* Two requests passed the lookup for one name; one has committed its row.
C1_Witness ==
    \E p \in Procs : pc[p] = "c_commit" /\ Has(users, req[p].name)

\* C2: create_user with an empty name answers 422 "User name cannot be
\* empty" whatever the age, also above 120, and leaves the table unchanged.
C2_EmptyNameRejected ==
    [][\A p \in Procs, age \in Ages :
          CreateUser(p, "", age) =>
              resp'[p] = NameEmpty /\ pc'[p] = "idle" /\ users' = users]_vars

C2_Witness ==
    \E p \in Procs :
        /\ IsCreate(p) /\ req[p].name = "" /\ req[p].age > AgeLimit
        /\ resp[p] = NameEmpty
        /\ users # {}

\* C3 as stated: create_user with age > 120 answers "User age cannot exceed
\* 120 years" for every name, the empty one included.
C3_AnyNameAgeRejected ==
    [][\A p \in Procs, name \in Names, age \in Ages :
          (CreateUser(p, name, age) /\ age > AgeLimit) =>
              resp'[p] = AgeOutOfRange /\ users' = users]_vars

\* C3 amended: create_user with age > 120 and a non-empty name answers
\* "User age cannot exceed 120 years" and leaves the table unchanged, whether
\* or not the name is stored.
C3_AgeRejected ==
    [][\A p \in Procs, name \in Names \ {""}, age \in Ages :
          (CreateUser(p, name, age) /\ age > AgeLimit) =>
              resp'[p] = AgeOutOfRange /\ pc'[p] = "idle" /\ users' = users]_vars

C3_Witness ==
    \E p \in Procs :
        /\ IsCreate(p) /\ req[p].age > AgeLimit
        /\ resp[p] = AgeOutOfRange
        /\ Has(users, req[p].name)

CreateEnds(p) ==
    /\ pc[p] \in {"idle", "c_commit", "c_refresh"}
    /\ pc'[p] = "idle"
    /\ resp'[p] # NoResp
    /\ req'[p].op = "create"
    /\ req'[p].name # ""
    /\ req'[p].age <= AgeLimit

\* C5 as stated: from any table, once a valid create_user(name, age) has
\* ended, get_users returns exactly one row of that name, with that age.
C5_AnyPriorState ==
    [][\A p \in Procs :
          CreateEnds(p) =>
              ExactlyOne(SelectAll(users'), req'[p].name, req'[p].age)]_vars

\* C5 amended: from any table that holds no row of the name, a valid
\* create_user(name, age) is not rejected, its commit leaves exactly one row
\* of that name, with that age, for get_users to return, and when it answers
\* "created" that row is still the only one of its name.
C5_CreateThenList ==
    [][\A p \in Procs :
          /\ \A name \in Names \ {""}, age \in Ages :
                (CreateUser(p, name, age) /\ age <= AgeLimit /\ ~Has(users, name))
                    => pc'[p] = "c_commit"
          /\ (CreateCommit(p) /\ ~Has(users, req[p].name))
                => ExactlyOne(SelectAll(users'), req[p].name, req[p].age)
          /\ (CreateRefresh(p) /\ resp'[p] = Created)
                => ExactlyOne(SelectAll(users'), req[p].name, req[p].age)]_vars

\* A get_users response that holds the row another request just created.
C5_Witness ==
    \E p, q \in Procs :
        /\ IsCreate(p) /\ resp[p] = Created
        /\ req[q].op = "list" /\ resp[q].status = 200
        /\ ExactlyOne(resp[q].body, req[p].name, req[p].age)
        /\ resp[q].body = users

\* C6: an INSERT the unique index rejects, because another request stored
\* the name after this one's lookup, is answered like a duplicate found by
\* the lookup: "User already exists" from create_user, and in upload_users
\* the row is skipped and the batch goes on.
C6_RejectedInsertIsConflict ==
    [][\A p \in Procs :
          /\ (CreateCommit(p) /\ Has(users, req[p].name)) => resp'[p] = Conflict
          /\ (UploadInsert(p) /\ CurrentRow(p).age # << >>
                 /\ Has(users, CurrentRow(p).name)) => pc'[p] # "idle"]_vars

\* C7: upload_users handles every row of the file and never answers with a
\* failure of the whole request because of one row.
C7_BatchNeverAborts ==
    [][\A p \in Procs :
          (InUpload(p) /\ pc'[p] = "idle") =>
              /\ idx[p] > Len(csv_data[p])
              /\ resp'[p].status = 200]_vars

\* C8: the example file, uploaded into an empty table that no other request
\* touches, leaves exactly the row Alice/30; and every row upload_users inserts
\* passes the checks of create_user.
C8_ExampleBatch ==
    [][\A p \in Procs :
          /\ (UploadCommit(p) /\ req[p].file = ExampleFile /\ pre_empty[p]
                 /\ users = {}) => Pairs(users') = {<<"Alice", 30>>}
          /\ (UploadInsert(p) /\ pending'[p] # pending[p]) =>
                 \A u \in pending'[p] \ pending[p] :
                     Validate(u.name, u.age) = NoResp]_vars

\* C9: delete_user of a name that is not stored answers 404 "User not found"
\* and leaves the table unchanged.
C9_DeleteAbsent ==
    [][\A p \in Procs, name \in Names :
          (DeleteUser(p, name) /\ ~Has(users, name)) =>
              resp'[p] = NotFound /\ pc'[p] = "idle" /\ users' = users]_vars

C9_Witness ==
    \E p \in Procs :
        /\ IsDelete(p) /\ resp[p] = NotFound
        /\ users # {} /\ ~Has(users, req[p].name)

\* C10: delete_user of a stored name removes its row and only its row:
\* get_users no longer returns the name, and a delete_user of the same name
\* issued while the name is still absent answers 404 "User not found".
C10_DeleteRemoves ==
    [][\A p \in Procs :
          /\ DeleteCommit(p) =>
                /\ resp'[p] = Deleted
                /\ ~Has(SelectAll(users'), req[p].name)
                /\ users' = {u \in users : u.name # req[p].name}
          /\ \A name \in Names :
                (DeleteUser(p, name) /\ Has(users, name)) => pc'[p] = "d_commit"
          /\ \A name \in Names :
                (DeleteUser(p, name) /\ ~Has(SelectAll(users), name))
                    => resp'[p] = NotFound]_vars

\* One request deleted the name, a later one for the same name got 404.
C10_Witness ==
    \E p, q \in Procs :
        /\ IsDelete(p) /\ resp[p] = Deleted
        /\ IsDelete(q) /\ resp[q] = NotFound
        /\ req[p].name = req[q].name
        /\ users # {} /\ ~Has(users, req[p].name)

IsList(p) == req[p].op = "list"

IsAverage(p) == req[p].op = "average"

\* The rows of a table whose name starts, in either case, with the letter g.
GroupRows(table, g) == {u \in table : Upper(FirstChar(u.name)) = g}

ExampleTable == {<<"Alice", 30>>, <<"Amy", 10>>, <<"Bob", 20>>}

\* C11: get_average_age_by_group over a table that is not empty returns one
\* entry for each upper-cased first letter among the stored names and no
\* other; each entry is the mean of the ages of the names starting with that
\* letter in either case (mean * count = sum); over Alice/30, Amy/10, Bob/20
\* it returns A: 20, B: 20.
C11_AverageByGroup ==
    [][\A p \in Procs :
          (GetAverageAge(p) /\ users # {}) =>
              /\ resp'[p].status = 200
              /\ DOMAIN resp'[p].body = {Upper(FirstChar(u.name)) : u \in users}
              /\ \A g \in DOMAIN resp'[p].body :
                    /\ resp'[p].body[g].den > 0
                    /\ resp'[p].body[g].num * Cardinality(GroupRows(users, g))
                          = SumAges(GroupRows(users, g)) * resp'[p].body[g].den
              /\ Pairs(users) = ExampleTable =>
                    resp'[p].body = ("A" :> [num |-> 20, den |-> 1]
                                     @@ "B" :> [num |-> 20, den |-> 1])]_vars

\* An answer whose group A averages Alice and alice together.
C11_Witness ==
    \E p \in Procs :
        /\ IsAverage(p) /\ resp[p].status = 200 /\ ~dirty[p]
        /\ Has(users, "Alice") /\ Has(users, "alice") /\ Has(users, "Bob")
        /\ DOMAIN resp[p].body = {"A", "B"}
        /\ resp[p].body["A"].num * 2 = 70 * resp[p].body["A"].den

\* C12: get_average_age_by_group answers 404 "No users found" when the table
\* is empty, and only then.
C12_NoUsersIffEmpty ==
    [][\A p \in Procs :
          GetAverageAge(p) =>
              /\ pc'[p] = "idle"
              /\ resp'[p] = NoUsers <=> users = {}]_vars

\* The table was emptied again before the request.
C12_Witness ==
    \E p \in Procs :
        IsAverage(p) /\ resp[p] = NoUsers /\ ~dirty[p] /\ users = {} /\ nextId > 1

\* C13: get_users and get_average_age_by_group leave the table as it is, and
\* answer what the same request answered before when no request has changed
\* the table since.
C13_ReadsRepeat ==
    [][\A p \in Procs :
          /\ GetUsers(p) =>
                /\ users' = users
                /\ \A q \in Procs : (IsList(q) /\ ~dirty[q]) => resp'[p] = resp[q]
          /\ GetAverageAge(p) =>
                /\ users' = users
                /\ \A q \in Procs : (IsAverage(q) /\ ~dirty[q]) => resp'[p] = resp[q]]_vars

\* Both slots asked for the averages of one unchanged table.
C13_Witness ==
    \E p, q \in Procs :
        /\ p # q
        /\ IsAverage(p) /\ IsAverage(q) /\ ~dirty[p] /\ ~dirty[q]
        /\ resp[p].status = 200 /\ resp[p] = resp[q]

\* C14: whatever create_user, upload_users and delete_user requests have run,
\* every row of the table has a name that is not empty and an age of at most
\* 120.
C14_StoredRowsValid ==
    \A u \in users : u.name # "" /\ u.age <= AgeLimit

\* The index of the first row of a file that carries this name.
FirstIndex(file, name) ==
    CHOOSE i \in 1..Len(file) :
        /\ file[i].name = name
        /\ \A j \in 1..(i - 1) : file[j].name # name

\* No other slot has served a request.
Alone(p) == \A q \in Procs \ {p} : req[q].op = "none"

\* C15: the lookup upload_users makes for a row finds the committed rows and
\* the rows the same upload has inserted before; a row whose name an earlier
\* row of the upload inserted is skipped, no upload inserts one name twice,
\* and an upload into an empty table that runs alone stores each name with
\* the age of its first row in the file.
C15_CumulativeLookup ==
    [][\A p \in Procs :
          /\ UploadSelect(p) =>
                (pc'[p] = "u_insert" <=>
                    ~Has(users \cup pending[p], CurrentRow(p).name))
          /\ UploadInsert(p) =>
                /\ \A u \in pending'[p] \ pending[p] : ~Has(pending[p], u.name)
                /\ \A u, v \in pending'[p] : u.name = v.name => u = v
          /\ (UploadCommit(p) /\ pre_empty[p] /\ Alone(p)) =>
                /\ {u.name : u \in users'} = {csv_data[p][i].name : i \in 1..Len(csv_data[p])}
                /\ \A u \in users' :
                      <<u.age>> = csv_data[p][FirstIndex(csv_data[p], u.name)].age]_vars

\* The example file went into an empty table: Alice is stored with the age
\* of the first of her two rows.
C15_Witness ==
    \E p \in Procs :
        /\ IsUpload(p) /\ req[p].file = ExampleFile /\ resp[p] = Uploaded
        /\ Alone(p)
        /\ \E u \in users : u.name = "Alice" /\ u.age = 30
        /\ Cardinality(users) = 3

\* C16: when the INSERT of a row of upload_users fails in the database, the
\* upload goes on with the next row and keeps the rows it has inserted.
C16_FailedRowContinues ==
    [][\A p \in Procs :
          (UploadInsert(p) \/ UploadDeadlock(p)) =>
              /\ pc'[p] \in {"u_select", "u_commit"}
              /\ pending[p] \subseteq pending'[p]]_vars

\* C17: a create_user that answers 201 has added exactly one row, a
\* delete_user that answers 200 has removed exactly one row, and a request
\* of either kind that answers with a failure has added and removed nothing.
C17_OneRowOrNone ==
    [][\A p \in Procs :
          /\ CreateCommit(p) =>
                \/ resp'[p] = InternalError /\ users' = users
                \/ /\ pc'[p] = "c_refresh"
                   /\ users \subseteq users'
                   /\ Cardinality(users' \ users) = 1
          /\ CreateRefresh(p) => resp'[p] = Created
          /\ DeleteCommit(p) =>
                /\ users' \subseteq users
                /\ Cardinality(users \ users') = 1]_vars

\* C18: a slot that has answered its request, with whatever outcome, holds
\* no open session and no uncommitted row; a session is open only while the
\* handler runs.
C18_SessionClosed ==
    \A p \in Procs :
        /\ pc[p] = "idle" => session[p] = "closed" /\ pending[p] = {}
        /\ session[p] = "open" => pc[p] # "idle"

\* An upload that had inserted a row failed, a create was rejected.
C18_Witness ==
    \E p, q \in Procs :
        /\ IsUpload(p) /\ resp[p] = InternalError /\ pc[p] = "idle"
        /\ nextId > 1 /\ users = {}
        /\ IsCreate(q) /\ resp[q] = NameEmpty /\ session[q] = "closed"

\* C19: create_user with a name that is not empty and not stored and an age
\* of at most 120, negative ages included, passes the checks, its commit
\* stores one row of that name and age, and it answers 201 unless that row
\* has been deleted in between.
C19_NoLowerBound ==
    [][\A p \in Procs :
          /\ \A name \in Names \ {""}, age \in Ages :
                (age <= AgeLimit /\ ~Has(users, name) /\ CreateUser(p, name, age))
                    => pc'[p] = "c_commit"
          /\ (CreateCommit(p) /\ ~Has(users, req[p].name)) =>
                /\ req[p].age <= AgeLimit
                /\ ExactlyOne(users', req[p].name, req[p].age)
          /\ (CreateRefresh(p) /\ User(newId[p], req[p].name, req[p].age) \in users) =>
                resp'[p] = Created]_vars

\* A row with a negative age is stored and its request was answered 201.
C19_Witness ==
    \E p \in Procs :
        /\ IsCreate(p) /\ req[p].age < 0 /\ resp[p] = Created
        /\ ExactlyOne(users, req[p].name, req[p].age)

====
